---- MODULE Spec2Model ----
(***************************************************************************)
(* Model of the instruction store of src/app.py: the handlers instruction  *)
(* (Submit), count_instructions (Count), list_instructions (List) and      *)
(* reset (Reset), run by concurrent request threads that serialise on      *)
(* store_lock, and the pure function repeating_unit_length.                *)
(*                                                                         *)
(* A text is a sequence of characters; the empty sequence is the empty     *)
(* string, i.e. the terminator.  Python's None is Nothing (the empty       *)
(* tuple) and a set value x is Some(x) (the one-element tuple).            *)
(***************************************************************************)
EXTENDS Integers, Sequences, FiniteSets, TLC

\* ------------------------------------------------------------------ bounds

\* Largest sequence number a caller submits (the smallest is 0).
MaxSeq == 3

\* Longest message the period computation is checked on in PeriodSpec.
MaxStrLen == 6

\* missing[:10] at src/app.py:80.
MissingShown == 10

\* A far sequence number, submitted as a terminator only: with it a terminator
\* can have more than MissingShown positions missing.
FarSeq == MissingShown + 2

\* The request threads.
Procs == {"t1", "t2"}

\* The sequence numbers callers submit.
Seqs == 0..MaxSeq

\* The fragment texts callers submit; <<>> is the terminator.
Texts == {<<>>, <<"a">>, <<"a", "b">>}

Alphabet == {"a", "b"}

\* The (seq, instruction) pairs callers submit.
Fragments == (Seqs \X Texts) \cup {<<FarSeq, <<>>>>}

\* ------------------------------------------------------------------ state

VARIABLES
    seq_to_instr,        \* dict seq -> text (live accumulation)
    final_instructions,  \* Nothing, or Some(list of texts) once frozen
    final_count,         \* Nothing, or Some(int) once frozen
    finalized,           \* True after a terminator finalizes the run
    store_lock,          \* "free" or the thread that holds the lock
    pc,                  \* per thread: position in its handler
    local,               \* per thread: the handler's arguments and locals
    result,              \* the response returned by the last step, if it returned
                         \* (req: the request it answers; replaced: the text the
                         \* accepted fragment took the place of)
    pre,                 \* history: the store when the running handler took the lock
    finals,              \* history: Finalized responses since the last Reset
    lastWrite,           \* history: last text stored at each seq since the last Reset
    rec                  \* history: the gap reported by the last Incomplete, being refilled

vars == <<seq_to_instr, final_instructions, final_count, finalized, store_lock,
          pc, local, result, pre, finals, lastWrite, rec>>

store == <<seq_to_instr, final_instructions, final_count, finalized>>

Nothing == <<>>

Some(x) == <<x>>

\* ------------------------------------------------------------------ helpers

\* seq_to_instr.get(i, "")
Get(m, i) == IF i \in DOMAIN m THEN m[i] ELSE <<>>

\* Mutant: the first text submitted at a seq is kept (setdefault).
UpsertKeepFirst(m, k, t) ==
    IF k \in DOMAIN m THEN m ELSE [i \in (DOMAIN m) \cup {k} |-> IF i = k THEN t ELSE m[i]]

\* Mutant: a fragment that arrives below the largest seq held is dropped.
UpsertInOrderOnly(m, k, t) ==
    IF \E j \in DOMAIN m : j > k THEN m
    ELSE [i \in (DOMAIN m) \cup {k} |-> IF i = k THEN t ELSE m[i]]

\* seq_to_instr[seq] = instr
Upsert(m, k, t) == [i \in (DOMAIN m) \cup {k} |-> IF i = k THEN t ELSE m[i]]

\* Mutant: the range runs one position too far (range(1, n + 2)).
OrderedOneMore(m, n) == IF n < 0 THEN <<>> ELSE [i \in 1..(n + 1) |-> Get(m, i)]

\* Mutant: position 1 is always taken (range(1, max(n, 1) + 1)).
OrderedAtLeastOne(m, n) == [i \in 1..(IF n < 1 THEN 1 ELSE n) |-> Get(m, i)]

\* [seq_to_instr.get(i, "") for i in range(1, n + 1)]
Ordered(m, n) == IF n < 1 THEN <<>> ELSE [i \in 1..n |-> Get(m, i)]

\* Mutant: the positions are numbered from 0 (enumerate(ordered)).
MissingFromZero(ordered) ==
    LET F[i \in 0..Len(ordered)] ==
            IF i = 0 THEN <<>>
            ELSE IF ordered[i] = <<>> THEN Append(F[i - 1], i - 1) ELSE F[i - 1]
    IN F[Len(ordered)]

\* [i for i, v in enumerate(ordered, start=1) if v == ""]
Missing(ordered) ==
    LET F[i \in 0..Len(ordered)] ==
            IF i = 0 THEN <<>>
            ELSE IF ordered[i] = <<>> THEN Append(F[i - 1], i) ELSE F[i - 1]
    IN F[Len(ordered)]

\* missing[:10]
FirstN(s, n) == SubSeq(s, 1, IF Len(s) < n THEN Len(s) ELSE n)

\* "".join(ordered)
Join(ordered) ==
    LET F[i \in 0..Len(ordered)] ==
            IF i = 0 THEN <<>> ELSE F[i - 1] \o ordered[i]
    IN F[Len(ordered)]

\* Mutant: every entry is counted, empty ones too (len(seq_to_instr)).
EveryEntryCount(m) == Cardinality(DOMAIN m)

\* sum(1 for v in values if v != "")
NonEmptyCount(m) == Cardinality({k \in DOMAIN m : m[k] # <<>>})

\* Mutant: the number of entries is taken for the largest key (len(seq_to_instr)).
EntryCountAsMax(m) == Cardinality(DOMAIN m)

\* max(seq_to_instr.keys())
MaxKey(m) == CHOOSE k \in DOMAIN m : \A j \in DOMAIN m : j <= k

\* The while loop of the prefix function: fall back along pi while s[i] != s[j]
\* (i, j are the 0-based indices of the code; pi is 0-based too, held 1-based).
RECURSIVE FallBack(_, _, _, _)
FallBack(s, pi, i, j) ==
    IF j > 0 /\ s[i + 1] # s[j + 1] THEN FallBack(s, pi, i, pi[j]) ELSE j

\* The for loop: pi[0..i] after iterations 1..i.
RECURSIVE PrefixFunction(_, _)
PrefixFunction(s, i) ==
    IF i = 0 THEN <<0>>
    ELSE LET pi == PrefixFunction(s, i - 1)
             j == FallBack(s, pi, i, pi[i])
         IN Append(pi, IF s[i + 1] = s[j + 1] THEN j + 1 ELSE j)

\* Mutant: the candidate period is returned without the divisibility test.
repeating_unit_length_candidate(s) ==
    IF s = <<>> THEN 0
    ELSE LET n == Len(s)
             pi == PrefixFunction(s, n - 1)
         IN n - pi[n]

repeating_unit_length(s) ==
    IF s = <<>> THEN 0
    ELSE LET n == Len(s)
             pi == PrefixFunction(s, n - 1)
             period == n - pi[n]
         IN IF n % period = 0 THEN period ELSE n

\* ------------------------------------------------------------------ responses

NoResult == [kind |-> "none"]

NoPre == [set |-> FALSE]

NoRec == [on |-> FALSE, n |-> 0, need |-> {}]

NoLocal == [op |-> "none", seq |-> 0, instr |-> <<>>, concat |-> FALSE,
            ordered |-> <<>>, missing |-> <<>>]

\* History: the seq at which the response just returned accepted a text in place
\* of a different non-empty one, if it did (recorded when a terminator follows).
Overwrote ==
    IF result.kind = "accepted" /\ result.replaced \notin {<<>>, result.req.instr}
    THEN Some(result.seq) ELSE Nothing

\* History: the seq of the fragment the response just returned accepted, if it
\* did (recorded when a terminator follows).
LastAccepted == IF result.kind = "accepted" THEN Some(result.seq) ELSE Nothing

Snapshot == [set |-> TRUE, seq_to_instr |-> seq_to_instr,
             final_instructions |-> final_instructions, final_count |-> final_count,
             finalized |-> finalized, rec |-> rec, finals |-> finals,
             lastWrite |-> lastWrite, over |-> Nothing]

\* ------------------------------------------------------------------ init

Init ==
    /\ seq_to_instr = <<>>
    /\ final_instructions = Nothing
    /\ final_count = Nothing
    /\ finalized = FALSE
    /\ store_lock = "free"
    /\ pc = [p \in Procs |-> "idle"]
    /\ local = [p \in Procs |-> NoLocal]
    /\ result = NoResult
    /\ pre = NoPre
    /\ finals = 0
    /\ lastWrite = <<>>
    /\ rec = NoRec


\* ------------------------------------------------------------------ threads

\* What a response answers: the request's operation and arguments.
Req(p) == [op |-> local[p].op, seq |-> local[p].seq, instr |-> local[p].instr,
           concat |-> local[p].concat]

\* Mutant: no mutual exclusion, the critical section is entered at once.
LockNeverHeld == TRUE

\* Lock.acquire(): the lock is taken only when nobody holds it.
LockFree == store_lock = "free"

\* A request arrives and its handler thread starts; it has not taken the lock yet.
Call(p) ==
    /\ pc[p] = "idle"
    /\ pc' = [pc EXCEPT ![p] = "waiting"]
    /\ result' = NoResult
    /\ pre' = IF store_lock = "free" THEN NoPre ELSE pre
    /\ UNCHANGED <<store, store_lock, local, finals, lastWrite, rec>>

\* `with store_lock:` entered by the handler of request (op, s, t, c); snap is
\* the history recorded at that moment.
EnterAs(p, op, s, t, c, label, snap) ==
    /\ pc[p] = "waiting"
    /\ LockFree
    /\ store_lock' = p
    /\ local' = [local EXCEPT ![p] = [NoLocal EXCEPT !.op = op, !.seq = s,
                                                   !.instr = t, !.concat = c]]
    /\ pc' = [pc EXCEPT ![p] = label]
    /\ pre' = snap
    /\ result' = NoResult
    /\ UNCHANGED <<store, finals, lastWrite, rec>>

Enter(p, op, s, t, c, label) ==
    EnterAs(p, op, s, t, c, label,
            IF op = "submit" /\ t = <<>>
            THEN [Snapshot EXCEPT !.over = Overwrote]
            ELSE Snapshot)

\* `return` inside `with store_lock:`: the lock is released and r is the response.
Return(p, r) ==
    /\ pc' = [pc EXCEPT ![p] = "idle"]
    /\ local' = [local EXCEPT ![p] = NoLocal]
    /\ store_lock' = "free"
    /\ result' = r
    /\ pre' = pre

\* A step inside the critical section that does not return.
Goto(p, label) ==
    /\ pc' = [pc EXCEPT ![p] = label]
    /\ result' = NoResult
    /\ pre' = pre
    /\ store_lock' = store_lock

\* ------------------------------------------------------------------ Submit

SubmitEnter(p) == \E f \in Fragments : Enter(p, "submit", f[1], f[2], FALSE, "i58")

\* Mutant: the finalized test is missing.
IsFinalizedNever == FALSE

\* if finalized: return ignored (409)
IsFinalized == finalized

\* Mutant: the upsert comes before the finalized test.
I58UpsertFirst(p) ==
    /\ pc[p] = "i58"
    /\ IF finalized
       THEN /\ Return(p, [kind |-> "rejected", reason |-> "sequence finalized", req |-> Req(p)])
            /\ seq_to_instr' = Upsert(seq_to_instr, local[p].seq, local[p].instr)
       ELSE /\ Goto(p, "i63") /\ local' = local
            /\ seq_to_instr' = seq_to_instr
    /\ UNCHANGED <<final_instructions, final_count, finalized, finals, lastWrite, rec>>

\* Mutant: the rejected path returns without releasing the lock.
I58KeepsLock(p) ==
    /\ pc[p] = "i58"
    /\ IF IsFinalized
       THEN /\ pc' = [pc EXCEPT ![p] = "idle"]
            /\ local' = [local EXCEPT ![p] = NoLocal]
            /\ store_lock' = store_lock
            /\ result' = [kind |-> "rejected", reason |-> "sequence finalized", req |-> Req(p)]
            /\ pre' = pre
       ELSE Goto(p, "i63") /\ local' = local
    /\ UNCHANGED <<store, finals, lastWrite, rec>>

I58(p) ==
    /\ pc[p] = "i58"
    /\ IF IsFinalized
       THEN Return(p, [kind |-> "rejected", reason |-> "sequence finalized", req |-> Req(p)])
       ELSE Goto(p, "i63") /\ local' = local
    /\ UNCHANGED <<store, finals, lastWrite, rec>>

\* Mutant: the `if instr != ""` return is missing, every fragment runs the
\* completeness check.
I63AlwaysChecks(p) ==
    /\ pc[p] = "i63"
    /\ seq_to_instr' = Upsert(seq_to_instr, local[p].seq, local[p].instr)
    /\ lastWrite' = [i \in (DOMAIN lastWrite) \cup {local[p].seq} |->
                        IF i = local[p].seq THEN local[p].instr ELSE lastWrite[i]]
    /\ Goto(p, "i70")
    /\ UNCHANGED <<final_instructions, final_count, finalized, local, finals, rec>>

\* Mutant: a terminator is not stored in the mapping (the upsert follows the
\* `if instr != ""` test and runs for fragments only).
I63TerminatorNotStored(p) ==
    LET s == local[p].seq
        t == local[p].instr
    IN /\ pc[p] = "i63"
       /\ seq_to_instr' = IF t # <<>> THEN Upsert(seq_to_instr, s, t) ELSE seq_to_instr
       /\ lastWrite' = [i \in (DOMAIN lastWrite) \cup {s} |-> IF i = s THEN t ELSE lastWrite[i]]
       /\ IF t # <<>>
          THEN /\ Return(p, [kind |-> "accepted", seq |-> s, req |-> Req(p),
                             replaced |-> Get(lastWrite, s)])
               /\ rec' = IF rec.on /\ s \in rec.need
                         THEN [rec EXCEPT !.need = @ \ {s}]
                         ELSE NoRec
          ELSE /\ Goto(p, "i70")
               /\ local' = local
               /\ rec' = rec
       /\ UNCHANGED <<final_instructions, final_count, finalized, finals>>

\* seq_to_instr[seq] = instr ; if instr != "": return accepted (202)
I63(p) ==
    LET s == local[p].seq
        t == local[p].instr
    IN /\ pc[p] = "i63"
       /\ seq_to_instr' = Upsert(seq_to_instr, s, t)
       /\ lastWrite' = [i \in (DOMAIN lastWrite) \cup {s} |-> IF i = s THEN t ELSE lastWrite[i]]
       /\ IF t # <<>>
          THEN /\ Return(p, [kind |-> "accepted", seq |-> s, req |-> Req(p),
                             replaced |-> Get(lastWrite, s)])
               /\ rec' = IF rec.on /\ s \in rec.need
                         THEN [rec EXCEPT !.need = @ \ {s}]
                         ELSE NoRec
          ELSE /\ Goto(p, "i70")
               /\ local' = local
               /\ rec' = rec
       /\ UNCHANGED <<final_instructions, final_count, finalized, finals>>

\* Mutant: a failed completeness check discards the fragments received so far.
AfterIncompleteCleared(m) == <<>>

\* What the completeness check leaves in the live mapping when it reports a gap.
AfterIncomplete(m) == m

\* Mutant: the `if missing` return is missing, every terminator freezes the run.
I70NoGapCheck(p) ==
    LET final_seq == local[p].seq
        ordered == Ordered(seq_to_instr, final_seq - 1)
        missing == Missing(ordered)
    IN /\ pc[p] = "i70"
       /\ Goto(p, "i84")
       /\ local' = [local EXCEPT ![p].ordered = ordered, ![p].missing = missing]
       /\ UNCHANGED <<store, finals, lastWrite, rec>>

\* final_seq = seq ; ordered ; missing ; if missing: return incomplete (409)
I70(p) ==
    LET final_seq == local[p].seq
        ordered == Ordered(seq_to_instr, final_seq - 1)
        missing == Missing(ordered)
    IN /\ pc[p] = "i70"
       /\ IF missing # <<>>
          THEN /\ Return(p, [kind |-> "incomplete", final_seq |-> final_seq,
                             missing_count |-> Len(missing),
                             missing_first_10 |-> FirstN(missing, MissingShown),
                             req |-> Req(p)])
               /\ seq_to_instr' = AfterIncomplete(seq_to_instr)
               /\ rec' = [on |-> TRUE, n |-> final_seq,
                          need |-> {missing[i] : i \in 1..Len(missing)}]
          ELSE /\ Goto(p, "i84")
               /\ local' = [local EXCEPT ![p].ordered = ordered, ![p].missing = missing]
               /\ seq_to_instr' = seq_to_instr
               /\ rec' = rec
       /\ UNCHANGED <<final_instructions, final_count, finalized, finals, lastWrite>>

\* final_instructions = ordered
I84(p) ==
    /\ pc[p] = "i84"
    /\ final_instructions' = Some(local[p].ordered)
    /\ Goto(p, "i85")
    /\ UNCHANGED <<seq_to_instr, final_count, finalized, local, finals, lastWrite, rec>>

\* final_count = len(ordered)
I85(p) ==
    /\ pc[p] = "i85"
    /\ final_count' = Some(Len(local[p].ordered))
    /\ Goto(p, "i86")
    /\ UNCHANGED <<seq_to_instr, final_instructions, finalized, local, finals, lastWrite, rec>>

\* finalized = True
I86(p) ==
    /\ pc[p] = "i86"
    /\ finalized' = TRUE
    /\ Goto(p, "i89")
    /\ UNCHANGED <<seq_to_instr, final_instructions, final_count, local, finals, lastWrite, rec>>

\* message = "".join(ordered) ; base_len = repeating_unit_length(message) ; return finalized (200)
I89(p) ==
    LET message == Join(local[p].ordered)
        base_len == repeating_unit_length(message)
    IN /\ pc[p] = "i89"
       /\ Return(p, [kind |-> "finalized", final_seq |-> local[p].seq,
                     steps_counted |-> final_count,
                     message_length |-> Len(message),
                     repeating_unit_length |-> base_len,
                     req |-> Req(p)])
       /\ finals' = IF finals < 2 THEN finals + 1 ELSE finals
       /\ rec' = NoRec
       /\ UNCHANGED <<store, lastWrite>>

\* ------------------------------------------------------------------ Count

CountEnter(p) == Enter(p, "count", 0, <<>>, FALSE, "c103")

\* The response of count_instructions in the current state.
CountView ==
    IF finalized
    THEN [kind |-> "count", instruction_count |-> final_count, status |-> "final"]
    ELSE [kind |-> "count", instruction_count |-> Some(NonEmptyCount(seq_to_instr)),
          status |-> "in-progress"]

C103(p) ==
    /\ pc[p] = "c103"
    /\ Return(p, [CountView EXCEPT !.kind = "count"] @@ [req |-> Req(p)])
    /\ UNCHANGED <<store, finals, lastWrite, rec>>

\* ------------------------------------------------------------------ List

ListEnter(p) == \E c \in BOOLEAN : Enter(p, "list", 0, <<>>, c, "l120")

\* The response of list_instructions in the current state; message is Nothing
\* when the concatenation was not requested. "".join(None) raises TypeError: the
\* with block releases the lock and the request fails.
ListView(concat) ==
    IF finalized /\ concat /\ final_instructions = Nothing
    THEN [kind |-> "error", status |-> "TypeError"]
    ELSE IF finalized
    THEN [kind |-> "list", instructions |-> final_instructions, status |-> "final",
          count |-> final_count, missing |-> Nothing, missing_count |-> Nothing,
          message |-> IF concat THEN Some(Join(final_instructions[1])) ELSE Nothing]
    ELSE IF DOMAIN seq_to_instr = {}
    THEN [kind |-> "list", instructions |-> Some(<<>>), status |-> "in-progress",
          count |-> Some(0), missing |-> Nothing, missing_count |-> Nothing,
          message |-> Nothing]
    ELSE LET end == MaxKey(seq_to_instr)
             ordered == Ordered(seq_to_instr, end)
             missing == Missing(ordered)
         IN [kind |-> "list", instructions |-> Some(ordered), status |-> "in-progress",
             count |-> Some(Cardinality({i \in 1..Len(ordered) : ordered[i] # <<>>})),
             missing |-> Some(missing), missing_count |-> Some(Len(missing)),
             message |-> IF concat THEN Some(Join(ordered)) ELSE Nothing]

L120(p) ==
    /\ pc[p] = "l120"
    /\ Return(p, ListView(local[p].concat) @@ [req |-> Req(p)])
    /\ UNCHANGED <<store, finals, lastWrite, rec>>

\* ------------------------------------------------------------------ Reset

ResetEnter(p) == Enter(p, "reset", 0, <<>>, FALSE, "r152")

\* Mutant: only the first assignment of reset() is made under the lock.
R152ReleasesLock(p) ==
    /\ pc[p] = "r152"
    /\ seq_to_instr' = <<>>
    /\ pc' = [pc EXCEPT ![p] = "r153"]
    /\ store_lock' = "free"
    /\ result' = NoResult
    /\ pre' = pre
    /\ lastWrite' = <<>>
    /\ finals' = 0
    /\ rec' = NoRec
    /\ UNCHANGED <<final_instructions, final_count, finalized, local>>

\* seq_to_instr = {}
R152(p) ==
    /\ pc[p] = "r152"
    /\ seq_to_instr' = <<>>
    /\ lastWrite' = <<>>
    /\ rec' = NoRec
    /\ finals' = 0
    /\ Goto(p, "r153")
    /\ UNCHANGED <<final_instructions, final_count, finalized, local>>

\* Mutant: reset() forgets to clear final_instructions.
R153Skipped(p) ==
    /\ pc[p] = "r153"
    /\ Goto(p, "r154")
    /\ UNCHANGED <<store, local, finals, lastWrite, rec>>

\* final_instructions = None
R153(p) ==
    /\ pc[p] = "r153"
    /\ final_instructions' = Nothing
    /\ Goto(p, "r154")
    /\ UNCHANGED <<seq_to_instr, final_count, finalized, local, finals, lastWrite, rec>>

\* final_count = None
R154(p) ==
    /\ pc[p] = "r154"
    /\ final_count' = Nothing
    /\ Goto(p, "r155")
    /\ UNCHANGED <<seq_to_instr, final_instructions, finalized, local, finals, lastWrite, rec>>

\* Mutant: reset() leaves finalized as it was.
ResetFlagKept == finalized

\* The value reset() leaves in finalized.
ResetFlag == FALSE

\* finalized = False ; the with block ends ; return reset (200)
R155(p) ==
    /\ pc[p] = "r155"
    /\ finalized' = ResetFlag
    /\ Return(p, [kind |-> "reset", req |-> Req(p)])
    /\ UNCHANGED <<seq_to_instr, final_instructions, final_count, finals, lastWrite, rec>>

\* ------------------------------------------------------------------ specification

Next ==
    \E p \in Procs :
        \/ Call(p)
        \/ SubmitEnter(p)
        \/ I58(p)
        \/ I63(p)
        \/ I70(p)
        \/ I84(p)
        \/ I85(p)
        \/ I86(p)
        \/ I89(p)
        \/ CountEnter(p)
        \/ C103(p)
        \/ ListEnter(p)
        \/ L120(p)
        \/ ResetEnter(p)
        \/ R152(p)
        \/ R153(p)
        \/ R154(p)
        \/ R155(p)

Spec == Init /\ [][Next]_vars

TypeOK ==
    /\ \A k \in DOMAIN seq_to_instr : <<k, seq_to_instr[k]>> \in Fragments
    /\ finalized \in BOOLEAN
    /\ store_lock \in Procs \cup {"free"}


\* ------------------------------------------------------------------ period specification

\* The messages of up to n characters.
RECURSIVE Strings(_)
Strings(n) ==
    IF n = 0 THEN {<<>>}
    ELSE LET shorter == Strings(n - 1)
         IN shorter \cup {Append(s, c) : s \in {x \in shorter : Len(x) = n - 1}, c \in Alphabet}

\* A run about to answer the terminator that froze the one-fragment message s
\* (the empty message: a terminator at position 1): the thread is at line 89.
PeriodInit ==
    \E s \in Strings(MaxStrLen) :
        LET frags == IF s = <<>> THEN <<>> ELSE <<s>>
            n == Len(frags) + 1
        IN /\ seq_to_instr = Upsert(frags, n, <<>>)
           /\ final_instructions = Some(frags)
           /\ final_count = Some(Len(frags))
           /\ finalized = TRUE
           /\ store_lock = "t1"
           /\ pc = [p \in Procs |-> IF p = "t1" THEN "i89" ELSE "idle"]
           /\ local = [p \in Procs |->
                         IF p = "t1"
                         THEN [NoLocal EXCEPT !.op = "submit", !.seq = n, !.ordered = frags]
                         ELSE NoLocal]
           /\ result = NoResult
           /\ pre = [set |-> TRUE, seq_to_instr |-> frags,
                     final_instructions |-> Nothing, final_count |-> Nothing,
                     finalized |-> FALSE, rec |-> NoRec, finals |-> 0,
                     lastWrite |-> frags, over |-> Nothing]
           /\ finals = 0
           /\ lastWrite = Upsert(frags, n, <<>>)
           /\ rec = NoRec

PeriodNext == \E p \in Procs : I89(p)

PeriodSpec == PeriodInit /\ [][PeriodNext]_vars

\* ------------------------------------------------------------------ order specification

\* A run that receives non-empty fragments at distinct positions 1..N-1 in any
\* order, from either thread, and then, when all of them have returned, a
\* terminator at N.

\* A terminator has been submitted.
TerminatorSent == \E k \in DOMAIN lastWrite : lastWrite[k] = <<>>

\* A Submit of a non-empty fragment at a position not submitted before.
OrderFragmentEnter(p) ==
    \E s \in 1..MaxSeq, t \in Texts \ {<<>>} :
        /\ s \notin DOMAIN lastWrite
        /\ ~TerminatorSent
        /\ Enter(p, "submit", s, t, FALSE, "i58")

\* A Submit of the terminator at N, once positions 1..N-1 have all been accepted;
\* the snapshot also records the position accepted last.
OrderTerminatorEnter(p) ==
    \E N \in 1..(MaxSeq + 1) :
        /\ DOMAIN lastWrite = 1..(N - 1)
        /\ ~TerminatorSent
        /\ EnterAs(p, "submit", N, <<>>, FALSE, "i58",
                   [last |-> LastAccepted] @@ Snapshot)

OrderNext ==
    \E p \in Procs :
        \/ Call(p)
        \/ OrderFragmentEnter(p)
        \/ OrderTerminatorEnter(p)
        \/ I58(p)
        \/ I63(p)
        \/ I70(p)
        \/ I84(p)
        \/ I85(p)
        \/ I86(p)
        \/ I89(p)

OrderSpec == Init /\ [][OrderNext]_vars

\* ------------------------------------------------------------------ fair specification

\* The handlers under fair scheduling: a thread inside a critical section keeps
\* running, and a thread waiting for the lock gets it if the lock is free again
\* and again.

\* The fragments submitted under fair scheduling.
FairFragments == (1..(MaxSeq - 1)) \X {<<>>, <<"a">>}

FairSubmitEnter(p) ==
    \E f \in FairFragments : Enter(p, "submit", f[1], f[2], FALSE, "i58")

\* Lock.acquire() returns in the waiting thread.
Acquire(p) ==
    \/ FairSubmitEnter(p)
    \/ CountEnter(p)
    \/ ListEnter(p)
    \/ ResetEnter(p)

\* A step of the thread inside its critical section.
Body(p) ==
    \/ I58(p)
    \/ I63(p)
    \/ I70(p)
    \/ I84(p)
    \/ I85(p)
    \/ I86(p)
    \/ I89(p)
    \/ C103(p)
    \/ L120(p)
    \/ R152(p)
    \/ R153(p)
    \/ R154(p)
    \/ R155(p)

FairNext ==
    \E p \in Procs :
        \/ Call(p)
        \/ Acquire(p)
        \/ Body(p)

FairSpec ==
    /\ Init
    /\ [][FairNext]_vars
    /\ \A p \in Procs : WF_vars(Body(p)) /\ SF_vars(Acquire(p))

\* ------------------------------------------------------------------ properties

\* The response answers a Submit.
IsSubmit == result.kind \in {"rejected", "accepted", "incomplete", "finalized"}

\* The response answers a Submit of a terminator that found the run live.
IsLiveTerminator == IsSubmit /\ result.req.instr = <<>> /\ ~pre.finalized

\* The ascending sequence of the elements of a finite set of integers.
RECURSIVE Ascending(_)
Ascending(S) ==
    IF S = {} THEN <<>>
    ELSE LET lo == CHOOSE x \in S : \A y \in S : x <= y
         IN <<lo>> \o Ascending(S \ {lo})

\* The texts of m at positions 1..n, in ascending position order, one after the other.
RECURSIVE Assembled(_, _)
Assembled(m, n) == IF n < 1 THEN <<>> ELSE Assembled(m, n - 1) \o m[n]

\* The smallest k >= 1 that divides len(s) with s[i] = s[i mod k] for all i
\* (len(s) itself always qualifies); 0 for the empty string.
MinPeriod(s) ==
    IF Len(s) = 0 THEN 0
    ELSE LET n == Len(s)
             ok == {k \in 1..n : n % k = 0 /\ \A i \in 0..(n - 1) : s[i + 1] = s[(i % k) + 1]}
         IN CHOOSE k \in ok : \A j \in ok : k <= j

\* C1. Completion monotonicity: a Submit that takes the lock after a Submit has
\* returned Finalized (and before the next Reset) returns Rejected, whatever its
\* seq and text.
C1_CompletionMonotonic ==
    (IsSubmit /\ pre.finals > 0) => result.kind = "rejected"

C1_Witness ==
    /\ result.kind = "rejected"
    /\ pre.finals > 0
    /\ result.req.instr = <<>>

\* C2 as stated: for a terminator at N submitted to a live run, if some position
\* of 1..N-1 was never submitted, the result is Incomplete and the missing
\* positions are exactly the never-submitted positions of 1..N-1, ascending.
C2_Original ==
    IsLiveTerminator =>
        LET N == result.req.seq
            never == {k \in 1..(N - 1) : k \notin DOMAIN pre.lastWrite}
        IN never # {} =>
              /\ result.kind = "incomplete"
              /\ result.missing_count = Cardinality(never)
              /\ result.missing_first_10 = FirstN(Ascending(never), 10)

\* C2, amended. Gap detection: for a terminator at N submitted to a live run, if
\* some position of 1..N-1 was never submitted, the result is Incomplete, and the
\* missing positions are exactly the positions of 1..N-1 that hold no non-empty
\* text (never submitted, or last submitted with an empty text), ascending;
\* missing_count is their number and missing_first_10 its first ten entries.
C2_GapDetection ==
    IsLiveTerminator =>
        LET N == result.req.seq
            never == {k \in 1..(N - 1) : k \notin DOMAIN pre.lastWrite}
            gaps == {k \in 1..(N - 1) : Get(pre.lastWrite, k) = <<>>}
        IN /\ never # {} => result.kind = "incomplete"
           /\ result.kind = "incomplete" =>
                 /\ gaps # {}
                 /\ result.final_seq = N
                 /\ result.missing_count = Cardinality(gaps)
                 /\ result.missing_first_10 = FirstN(Ascending(gaps), 10)
           /\ gaps # {} => result.kind = "incomplete"

\* A terminator reported more than ten gaps, one of them a position that was
\* submitted before (with an empty text), another one never submitted.
C2_Witness ==
    /\ IsLiveTerminator
    /\ result.kind = "incomplete"
    /\ result.missing_count > 10
    /\ Len(result.missing_first_10) = 10
    /\ \E k \in 1..(result.req.seq - 1) : k \in DOMAIN pre.lastWrite /\ pre.lastWrite[k] = <<>>
    /\ \E k \in 1..(result.req.seq - 1) : k \notin DOMAIN pre.lastWrite


\* Every position 1..n of m holds a non-empty text.
Complete(m, n) == \A k \in 1..n : Get(m, k) # <<>>

\* The Finalized response and the frozen run for a terminator at N over the
\* fragments m: counted steps, message length, frozen sequence, List's final view.
FinalizedAs(N, steps, m) ==
    LET texts == [i \in 1..steps |-> m[i]]
        message == Assembled(m, steps)
    IN /\ result.kind = "finalized"
       /\ result.final_seq = N
       /\ result.steps_counted = Some(steps)
       /\ result.message_length = Len(message)
       /\ finalized
       /\ final_instructions = Some(texts)
       /\ final_count = Some(steps)
       /\ ListView(TRUE).status = "final"
       /\ ListView(TRUE).instructions = Some(texts)
       /\ ListView(TRUE).message = Some(message)
       /\ ListView(FALSE).instructions = Some(texts)

\* C3 as stated: a terminator at N submitted to a live run in which every position
\* 1..N-1 holds a text returns Finalized with final_seq = N, steps_counted = N-1
\* and message_length the length of the texts at 1..N-1 concatenated in ascending
\* order, and freezes exactly that sequence.
C3_Original ==
    (IsLiveTerminator /\ Complete(pre.seq_to_instr, result.req.seq - 1)) =>
        FinalizedAs(result.req.seq, result.req.seq - 1, pre.seq_to_instr)

\* C3, amended. Finalization on completeness: a terminator at a position N >= 1
\* submitted to a live run in which every position 1..N-1 holds a text returns
\* Finalized with final_seq = N, steps_counted = N-1, message_length the length
\* of the texts at 1..N-1 concatenated in ascending position order; the run is
\* then finalized with exactly that sequence frozen, and List returns it with
\* status "final".
C3_FinalizationOnCompleteness ==
    (IsLiveTerminator /\ result.req.seq >= 1
        /\ Complete(pre.seq_to_instr, result.req.seq - 1)) =>
        FinalizedAs(result.req.seq, result.req.seq - 1, pre.seq_to_instr)

\* Two fragments of different lengths were frozen by a terminator at 3.
C3_Witness ==
    /\ IsLiveTerminator
    /\ result.kind = "finalized"
    /\ result.final_seq = 3
    /\ result.message_length = 3
    /\ final_instructions = Some(<< <<"a", "b">>, <<"a">> >>)

\* C4. Last write wins: in every state the lock leaves visible, a live mapping
\* holds at each submitted seq the text of the last submission at that seq; and
\* the sequence a terminator freezes (and the message length it reports) is made
\* of the last texts submitted at 1..N-1.
C4_LastWriteWins ==
    /\ (store_lock = "free" /\ ~finalized) =>
          /\ DOMAIN seq_to_instr = DOMAIN lastWrite
          /\ \A k \in DOMAIN lastWrite : seq_to_instr[k] = lastWrite[k]
    /\ result.kind = "finalized" =>
          LET n == Len(final_instructions[1])
          IN /\ \A i \in 1..n : final_instructions[1][i] = pre.lastWrite[i]
             /\ result.message_length = Len(Assembled(pre.lastWrite, n))

\* A terminator froze a position right after that position's text was replaced
\* by a different non-empty text.
C4_Witness ==
    /\ result.kind = "finalized"
    /\ pre.over # Nothing
    /\ pre.over[1] \in 1..Len(final_instructions[1])
    /\ final_instructions[1][pre.over[1]] = pre.lastWrite[pre.over[1]]

\* C5. Period correctness: the repeating_unit_length of a Finalized response is
\* the smallest k >= 1 dividing the length of the assembled message s with
\* s[i] = s[i mod k] for all i (the length itself when no smaller k exists), and
\* 0 for the empty message.
C5_PeriodCorrect ==
    result.kind = "finalized" =>
        result.repeating_unit_length = MinPeriod(Assembled(final_instructions[1],
                                                           Len(final_instructions[1])))

\* A message whose candidate period n - pi[n-1] does not divide its length.
C5_Witness ==
    /\ result.kind = "finalized"
    /\ final_instructions = Some(<< <<"a", "b", "a", "a", "b">> >>)
    /\ result.repeating_unit_length = 5

\* A message with a proper period.
C5_WitnessPeriodic ==
    /\ result.kind = "finalized"
    /\ result.message_length = 6
    /\ result.repeating_unit_length = 3

\* C6. Single finalization per run: between two Resets at most one Submit returns
\* Finalized; finalized goes from false to true only when no Submit has returned
\* Finalized in this run, and from true to false only in reset().
C6_SingleFinalization ==
    /\ [](finals <= 1)
    /\ [][(~finalized /\ finalized') => finals = 0]_vars
    /\ [][(finalized /\ ~finalized') => \E p \in Procs : pc[p] = "r155"]_vars

\* A terminator was refused after another one finalized the run, while a third
\* request was waiting for the lock.
C6_Witness ==
    /\ result.kind = "rejected"
    /\ result.req.instr = <<>>
    /\ pre.finals = 1
    /\ finals = 1
    /\ \E p \in Procs : pc[p] = "waiting"

\* C7. No torn state: whenever the lock is free, finalized is true iff the frozen
\* sequence and the frozen count are set, the frozen count is then the length of
\* the frozen sequence, and when finalized is false both are unset.
C7_NoTornState ==
    store_lock = "free" =>
        /\ finalized <=> final_instructions # Nothing
        /\ finalized <=> final_count # Nothing
        /\ finalized => final_count[1] = Len(final_instructions[1])

\* A finalized run seen with the lock free, frozen with two fragments.
C7_Witness ==
    /\ store_lock = "free"
    /\ finalized
    /\ final_count = Some(2)

\* C8. Reset is a full clear: when reset() returns, from a live or a finalized
\* run, the store is the initial one (empty mapping, no frozen sequence, no frozen
\* count, finalized false) with the lock free, so Count gives 0 "in-progress" and
\* List the empty sequence.
C8_ResetClears ==
    result.kind = "reset" =>
        /\ seq_to_instr = <<>>
        /\ final_instructions = Nothing
        /\ final_count = Nothing
        /\ finalized = FALSE
        /\ store_lock = "free"
        /\ CountView.instruction_count = Some(0)
        /\ CountView.status = "in-progress"
        /\ \A c \in BOOLEAN : ListView(c).instructions = Some(<<>>)
        /\ \A c \in BOOLEAN : ListView(c).status = "in-progress"

\* reset() returned on a run that was finalized with fragments frozen.
C8_Witness ==
    /\ result.kind = "reset"
    /\ pre.finalized
    /\ pre.final_count = Some(2)

\* C9. A rejected submission changes nothing and the frozen result is immutable:
\* a Submit, Count or List that finds the run finalized leaves the live mapping,
\* the frozen sequence, the frozen count and the flag as they were; the Submit
\* is rejected, Count returns the frozen count and List the frozen sequence.
C9_FrozenImmutable ==
    (pre.set /\ pre.finalized /\ result.kind \notin {"none", "reset"}) =>
        /\ seq_to_instr = pre.seq_to_instr
        /\ final_instructions = pre.final_instructions
        /\ final_count = pre.final_count
        /\ finalized
        /\ IsSubmit => result.kind = "rejected"
        /\ result.kind = "count" =>
              result.instruction_count = pre.final_count /\ result.status = "final"
        /\ result.kind = "list" =>
              /\ result.instructions = pre.final_instructions
              /\ result.count = pre.final_count
              /\ result.status = "final"

\* A non-empty fragment at a position the frozen run does not hold was rejected.
C9_Witness ==
    /\ result.kind = "rejected"
    /\ pre.finalized
    /\ result.req.instr # <<>>
    /\ result.req.seq \notin DOMAIN seq_to_instr

\* C10. A sequence gap is recoverable: an Incomplete response leaves the run live;
\* and when, after an Incomplete for a terminator at N with missing set M, every
\* position of M has been submitted with a non-empty text and nothing else was
\* submitted, a terminator at N returns Finalized.
C10_GapRecoverable ==
    /\ result.kind = "incomplete" =>
          /\ ~finalized
          /\ final_instructions = Nothing
          /\ final_count = Nothing
    /\ (IsSubmit /\ result.req.instr = <<>> /\ pre.rec.on
          /\ pre.rec.need = {} /\ pre.rec.n = result.req.seq) =>
          result.kind = "finalized"

\* A terminator at 3 finalized after its two missing positions were filled.
C10_Witness ==
    /\ result.kind = "finalized"
    /\ pre.rec.on
    /\ pre.rec.need = {}
    /\ pre.rec.n = 3
    /\ result.steps_counted = Some(2)

\* C11. A non-terminator submission never finalizes: a Submit with a non-empty
\* text to a live run returns Accepted with that seq and leaves finalized false
\* and the frozen fields unset, also when it fills the last gap below an earlier
\* terminator; only the handler of a terminator reaches the freeze (lines 84-98).
C11_NonTerminatorNeverFinalizes ==
    /\ (IsSubmit /\ result.req.instr # <<>> /\ ~pre.finalized) =>
          /\ result.kind = "accepted"
          /\ result.seq = result.req.seq
          /\ ~finalized
          /\ final_instructions = Nothing
          /\ final_count = Nothing
    /\ result.kind = "finalized" => result.req.instr = <<>>
    /\ \A p \in Procs : pc[p] \in {"i70", "i84", "i85", "i86", "i89"} => local[p].instr = <<>>

\* A fragment filled the last gap below a terminator that was reported
\* Incomplete, and the run stayed live with every position below it held.
C11_Witness ==
    /\ result.kind = "accepted"
    /\ pre.rec.on
    /\ pre.rec.need = {result.seq}
    /\ Complete(seq_to_instr, pre.rec.n - 1)
    /\ ~finalized

\* The store recorded in a snapshot.
StoreOf(s) == <<s.seq_to_instr, s.final_instructions, s.final_count, s.finalized>>

\* C12. Count: on a live run Count returns status "in-progress" and the number of
\* positions whose last submitted text is non-empty (a held terminator is not
\* counted; 0 before any submission); on a finalized run it returns status
\* "final" and the frozen count; Count leaves the store as it found it.
C12_Count ==
    /\ result.kind = "count" =>
          /\ store = StoreOf(pre)
          /\ pre.finalized =>
                result.status = "final" /\ result.instruction_count = pre.final_count
          /\ ~pre.finalized =>
                /\ result.status = "in-progress"
                /\ result.instruction_count =
                      Some(Cardinality({k \in DOMAIN pre.lastWrite : pre.lastWrite[k] # <<>>}))
    /\ (store_lock = "free" /\ DOMAIN lastWrite = {} /\ ~finalized) =>
          CountView.instruction_count = Some(0) /\ CountView.status = "in-progress"

\* Count on a live run that holds two fragments and a terminator.
C12_Witness ==
    /\ result.kind = "count"
    /\ result.status = "in-progress"
    /\ result.instruction_count = Some(2)
    /\ \E k \in DOMAIN seq_to_instr : seq_to_instr[k] = <<>>

\* The text last submitted at position i of history h, empty when there is none.
Held(h, i) == IF i \in DOMAIN h THEN h[i] ELSE <<>>

\* Held(h, 1), ..., Held(h, n) one after the other.
RECURSIVE HeldMessage(_, _)
HeldMessage(h, n) == IF n < 1 THEN <<>> ELSE HeldMessage(h, n - 1) \o Held(h, n)

C14_IncompleteCarriesLength ==
    result.kind = "incomplete" =>
        /\ {"final_seq", "missing_count", "missing_first_10"} \subseteq DOMAIN result
        /\ "message_length" \in DOMAIN result
        /\ result.message_length = Len(HeldMessage(pre.lastWrite, result.final_seq - 1))

\* The fields of the Incomplete response of lines 76-81: no message_length.
C14_IncompleteFields ==
    result.kind = "incomplete" =>
        DOMAIN result = {"kind", "final_seq", "missing_count", "missing_first_10", "req"}

\* The live mapping after the fragments of h at positions 1..n are submitted in
\* ascending order to an empty run.
RECURSIVE AscendingStore(_, _)
AscendingStore(h, n) ==
    IF n < 1 THEN <<>> ELSE Upsert(AscendingStore(h, n - 1), n, h[n])

\* The store and the response that the terminator at N leaves when the fragments
\* of h were submitted in ascending order before it.
AscendingRun(h, N) ==
    LET m == Upsert(AscendingStore(h, N - 1), N, <<>>)
        ordered == Ordered(m, N - 1)
        message == Join(ordered)
    IN [store |-> <<m, Some(ordered), Some(Len(ordered)), TRUE>>,
        kind |-> IF Missing(ordered) = <<>> THEN "finalized" ELSE "incomplete",
        final_seq |-> N,
        steps_counted |-> Some(Len(ordered)),
        message_length |-> Len(message),
        repeating_unit_length |-> repeating_unit_length(message)]

\* C15. Order independence of reassembly: when non-empty fragments at distinct
\* positions 1..N-1 are submitted in any order by the concurrent threads and a
\* terminator at N follows once all have returned, the Finalized response and the
\* frozen store are those of the run that submits them in ascending order; and
\* on any live mapping two non-terminator upserts at distinct positions commute.
C15_OrderIndependent ==
    /\ (IsSubmit /\ result.req.instr = <<>>) =>
          LET asc == AscendingRun(pre.lastWrite, result.req.seq)
          IN /\ asc.kind = "finalized"
             /\ result.kind = asc.kind
             /\ result.final_seq = asc.final_seq
             /\ result.steps_counted = asc.steps_counted
             /\ result.message_length = asc.message_length
             /\ result.repeating_unit_length = asc.repeating_unit_length
             /\ store = asc.store
    /\ store_lock = "free" =>
          \A s1, s2 \in 1..MaxSeq : \A t1, t2 \in Texts \ {<<>>} :
              s1 # s2 =>
                  Upsert(Upsert(seq_to_instr, s1, t1), s2, t2)
                      = Upsert(Upsert(seq_to_instr, s2, t2), s1, t1)

\* The terminator at MaxSeq + 1 finalizes a run whose position 1 was accepted
\* last, after the higher positions, with different texts at 1 and 2.
C15_Witness ==
    /\ result.kind = "finalized"
    /\ result.req.seq = MaxSeq + 1
    /\ pre.last = Some(1)
    /\ pre.lastWrite[1] # pre.lastWrite[2]
    /\ store = AscendingRun(pre.lastWrite, result.req.seq).store

\* The thread is inside a critical section.
Inside(p) == pc[p] \notin {"idle", "waiting"}

\* The store and the result kind of the Submit q run alone on the store s.
SerialSubmit(s, q) ==
    LET m == [i \in (DOMAIN s[1]) \cup {q.seq} |-> IF i = q.seq THEN q.instr ELSE s[1][i]]
        steps == IF q.seq < 1 THEN 0 ELSE q.seq - 1
    IN IF s[4] THEN [store |-> s, kind |-> "rejected"]
       ELSE IF q.instr # <<>> THEN [store |-> <<m, s[2], s[3], s[4]>>, kind |-> "accepted"]
       ELSE IF \E k \in 1..steps : Get(m, k) = <<>>
            THEN [store |-> <<m, s[2], s[3], s[4]>>, kind |-> "incomplete"]
       ELSE [store |-> <<m, Some([i \in 1..steps |-> m[i]]), Some(steps), TRUE>>,
             kind |-> "finalized"]

\* The store a Reset run alone leaves.
SerialReset == <<<<>>, Nothing, Nothing, FALSE>>

\* C16. Reset is atomic with respect to concurrent Submit: the threads are never
\* inside their critical sections together; a Submit's response and the store it
\* leaves are those of that Submit run alone on the store it found when it took
\* the lock, and a Reset leaves the cleared store, so the outcome is that of one
\* serial order; and with the lock free, finalized is never true with a frozen
\* field cleared, nor is a frozen field set on a mapping that was reset.
C16_ResetAtomic ==
    /\ \A p \in Procs : Inside(p) <=> store_lock = p
    /\ IsSubmit =>
          LET alone == SerialSubmit(StoreOf(pre), result.req)
          IN result.kind = alone.kind /\ store = alone.store
    /\ result.kind = "reset" => store = SerialReset
    /\ store_lock = "free" =>
          /\ finalized => final_instructions # Nothing /\ final_count # Nothing
          /\ (final_instructions # Nothing \/ final_count # Nothing) =>
                \E N \in DOMAIN seq_to_instr :
                    /\ seq_to_instr[N] = <<>>
                    /\ final_instructions = Some(Ordered(seq_to_instr, N - 1))
                    /\ final_count = Some(Len(Ordered(seq_to_instr, N - 1)))

\* A Reset of a finalized run returns while the other thread, called before the
\* Reset returned, is waiting for the lock.
C16_Witness ==
    /\ result.kind = "reset"
    /\ pre.finalized
    /\ pre.final_count = Some(2)
    /\ \E p \in Procs : pc[p] = "waiting"
    /\ store = SerialReset

Elements(s) == {s[i] : i \in 1..Len(s)}

\* C18. A terminator leaves its own empty entry in the live mapping: after a
\* terminator at k is answered on a live run the mapping holds the empty text at
\* k, whatever it held there before, and its other entries are as they were; and
\* a terminator at N answered on a live run in which the last submission at some
\* position k of 1..N-1 was a terminator returns Incomplete with k among the
\* missing positions, even when every position of 1..N-1 has been submitted.
C18_TerminatorEntry ==
    IsLiveTerminator =>
        LET N == result.req.seq
            h == pre.lastWrite
            emptied == {k \in 1..(N - 1) : k \in DOMAIN h /\ h[k] = <<>>}
        IN /\ N \in DOMAIN seq_to_instr
           /\ seq_to_instr[N] = <<>>
           /\ \A i \in DOMAIN pre.seq_to_instr :
                 i # N => i \in DOMAIN seq_to_instr /\ seq_to_instr[i] = pre.seq_to_instr[i]
           /\ emptied # {} =>
                 /\ result.kind = "incomplete"
                 /\ emptied \subseteq Elements(result.missing_first_10)

\* A terminator at MaxSeq returns Incomplete although every position below it has
\* been submitted: the only missing position is one whose last submission was a
\* terminator.
C18_Witness ==
    /\ result.kind = "incomplete"
    /\ result.req.seq = MaxSeq
    /\ 1..(MaxSeq - 1) \subseteq DOMAIN pre.lastWrite
    /\ result.missing_count = 1
    /\ seq_to_instr[MaxSeq] = <<>>

\* C19. A terminator at a position seq <= 1 answered on a live run finalizes at
\* once, whatever the mapping holds: the response is Finalized with steps_counted,
\* message_length and repeating_unit_length all 0, the frozen sequence is empty
\* and the frozen count 0, so no fragment accepted before is part of the result.
C19_EarlyTerminator ==
    (IsLiveTerminator /\ result.req.seq <= 1) =>
        /\ result.kind = "finalized"
        /\ result.steps_counted = Some(0)
        /\ result.message_length = 0
        /\ result.repeating_unit_length = 0
        /\ finalized
        /\ final_instructions = Some(<<>>)
        /\ final_count = Some(0)
        /\ ListView(TRUE).instructions = Some(<<>>)
        /\ ListView(TRUE).message = Some(<<>>)

\* A terminator at 1 finalizes an empty message on a run that had accepted
\* fragments at two positions, position 1 among them.
C19_Witness ==
    /\ result.kind = "finalized"
    /\ result.req.seq = 1
    /\ NonEmptyCount(pre.seq_to_instr) >= 2
    /\ Get(pre.seq_to_instr, 1) # <<>>
    /\ final_count = Some(0)

\* The number of positions of S at which the last text submitted in h is non-empty.
HeldCount(h, S) == Cardinality({k \in S \cap DOMAIN h : h[k] # <<>>})

\* C20. Every element of a frozen sequence is a non-empty text; when a Submit
\* returns Finalized for a terminator at N the frozen count (and steps_counted)
\* is the number of positions of 1..N-1 holding a non-empty text when it took the
\* lock, and is at most the live Count of that moment.
C20_FrozenNonEmpty ==
    /\ final_instructions # Nothing =>
          \A i \in 1..Len(final_instructions[1]) : final_instructions[1][i] # <<>>
    /\ result.kind = "finalized" =>
          LET h == pre.lastWrite
              N == result.req.seq
          IN /\ final_count = Some(HeldCount(h, 1..(N - 1)))
             /\ result.steps_counted = final_count
             /\ final_count = Some(Len(final_instructions[1]))
             /\ final_count[1] <= HeldCount(h, DOMAIN h)
             /\ HeldCount(h, DOMAIN h) = NonEmptyCount(pre.seq_to_instr)

\* A terminator freezes one fragment of a run whose live Count was higher: a
\* fragment held at a position above the terminator is left out.
C20_Witness ==
    /\ result.kind = "finalized"
    /\ final_count = Some(1)
    /\ final_instructions[1][1] # <<>>
    /\ NonEmptyCount(pre.seq_to_instr) > 1

====
